---- MODULE Spec2Model ----
(***************************************************************************)
(* Glacier Care back end: the report interpretation engine and the        *)
(* /analyze endpoint of app.py, and the document extraction pipeline of   *)
(* scanner_processor.py.                                                   *)
(*                                                                         *)
(* A Python string is a sequence of tokens (each token a literal chunk of  *)
(* characters); a decoded JSON value is a tagged record.  The external     *)
(* collaborators (the generative model, the PDF/OCR libraries) answer      *)
(* nondeterministically: every outcome the library can produce is drawn    *)
(* with \E by the action that calls it.                                    *)
(***************************************************************************)
EXTENDS Integers, Sequences, FiniteSets, TLC

VARIABLES
    pc,             \* "idle", or the operation whose outcome the state holds
    request,        \* the request POST /analyze received
    service,        \* what the generative model did when it was called
    analysis,       \* what analyzer.analyze_report did
    response,       \* the response of the endpoint
    easyocr_reader, \* scanner_processor.easyocr_reader is not None
    upload,         \* the arguments of process_file
    library,        \* what the libraries answered to process_file
    calls,          \* the library calls process_file made, in order
    extracted,      \* the text process_file returned
    firebase_auth_manager, \* the global FirebaseAuthManager, once imported
    auth            \* a request to a route under require_firebase_auth

analyzer_vars == <<request, service, analysis, response>>
scanner_vars == <<upload, library, calls, extracted>>
auth_vars == <<firebase_auth_manager, auth>>

(* ---------------------------------------------------------------------- *)
(* Bounds                                                                  *)
(* ---------------------------------------------------------------------- *)
\* number of fields of a reply object that deviate from a well-formed report
MaxDefects == 1
\* length of the reportText of a request, in characters
MaxReportLen == 2
\* entries of the medicationDetails list of a reply
MaxMeds == 1
\* bytes of a plain-text upload
MaxBytes == 3
\* paragraphs of a word-processing document
MaxParagraphs == 2
\* pages of a PDF as a text-layer reader sees it
MaxPages == 2
\* bitmaps the page rasterizer answers for a PDF
MaxImages == 1
\* pieces of an Authorization header
MaxHeaderLen == 3

(* ---------------------------------------------------------------------- *)
(* Python / JSON values                                                    *)
(* ---------------------------------------------------------------------- *)
JStr(s) == [t |-> "str", s |-> s]
JInt(n) == [t |-> "num", n |-> n]
JNull == [t |-> "null"]
JList(l) == [t |-> "list", l |-> l]
JObj(o) == [t |-> "obj", o |-> o]
\* marks a key that a dict does not have, and a value that was never produced
Absent == [t |-> "absent"]

IsWhitespace(c) == c \in {" ", "\n"}

\* str.strip(): drop leading and trailing whitespace
RECURSIVE lstrip(_)
lstrip(s) ==
    IF s = <<>> THEN <<>>
    ELSE IF IsWhitespace(Head(s)) THEN lstrip(Tail(s)) ELSE s

RECURSIVE rstrip(_)
rstrip(s) ==
    IF s = <<>> THEN <<>>
    ELSE IF IsWhitespace(s[Len(s)]) THEN rstrip(SubSeq(s, 1, Len(s) - 1)) ELSE s

strip(s) == rstrip(lstrip(s))

\* len() of a string: the characters of all its tokens
\* pieces that stand for one character: U+00E9 and U+FFFD
char_tokens == {"e-acute", "<U+FFFD>"}

RECURSIVE py_len(_)
py_len(s) ==
    IF s = <<>> THEN 0
    ELSE (IF Head(s) \in char_tokens THEN 1 ELSE Len(Head(s))) + py_len(Tail(s))

required_fields ==
    <<"keyFindings", "explanations", "recommendations", "urgentCare",
      "medicationDetails", "riskLevel">>

array_fields ==
    <<"keyFindings", "explanations", "recommendations", "urgentCare",
      "medicationDetails">>

valid_risk_levels == <<"low", "moderate", "high">>

Range(f) == {f[i] : i \in DOMAIN f}

(* ---------------------------------------------------------------------- *)
(* MedicalReportAnalyzer                                                   *)
(* ---------------------------------------------------------------------- *)

\* the truth value Python gives a string
Truthy(s) == py_len(s) > 0

_create_fallback_response(report_text, filename) ==
    LET file_info == IF Truthy(filename)
                     THEN <<" (from file: ">> \o filename \o <<")">>
                     ELSE <<>>
    IN JObj([
        keyFindings |-> JList(<<
            JStr(<<"Report analysis completed ">> \o file_info),
            JStr(<<"Unable to provide detailed AI analysis at this time">>),
            JStr(<<"Please consult with your healthcare provider for detailed interpretation">>)>>),
        explanations |-> JList(<<
            JStr(<<"We encountered a technical issue while analyzing your report">>),
            JStr(<<"This is a temporary problem and does not reflect on your health status">>),
            JStr(<<"Your healthcare provider can provide the detailed analysis you need">>)>>),
        recommendations |-> JList(<<
            JStr(<<"Contact your healthcare provider for a detailed report interpretation">>),
            JStr(<<"Keep a copy of your medical report for your records">>),
            JStr(<<"Schedule a follow-up appointment to discuss your results">>)>>),
        urgentCare |-> JList(<<
            JStr(<<"If you have any immediate health concerns, contact your doctor or visit the emergency room">>),
            JStr(<<"Do not delay seeking medical attention for urgent symptoms">>)>>),
        medicationDetails |-> JList(<<>>),
        riskLevel |-> JStr(<<"moderate">>)])

\* the tokens that stand for the fence markers ```json and ```
FENCE_JSON == "<fence>json"
FENCE == "<fence>"

\* re.sub(r'```json\s*', '', s) then re.sub(r'```\s*', '', s) on one string:
\* every fence marker goes, together with the whitespace that follows it
RECURSIVE sub_fences(_)
sub_fences(s) ==
    IF s = <<>> THEN <<>>
    ELSE IF Head(s) \in {FENCE_JSON, FENCE} THEN sub_fences(lstrip(Tail(s)))
    ELSE <<Head(s)>> \o sub_fences(Tail(s))

\* the same substitutions seen through the decoder: the strings of the payload
\* lose their fence markers too
RECURSIVE sub_fences_value(_)
sub_fences_value(v) ==
    CASE v.t = "str" -> JStr(sub_fences(v.s))
      [] v.t = "list" -> JList([i \in DOMAIN v.l |-> sub_fences_value(v.l[i])])
      [] v.t = "obj" -> JObj([k \in DOMAIN v.o |-> sub_fences_value(v.o[k])])
      [] OTHER -> v

\* A reply text is pre + body + post: pre and post are the tokens around the
\* payload, body is the JSON value the payload spells, or Garbage when it
\* spells none.
Garbage == [t |-> "garbage"]

\* mutant of clean_response_text: the two substitutions are left out
clean_response_text_strip_only(response_text) ==
    [pre |-> lstrip(response_text.pre),
     body |-> response_text.body,
     post |-> rstrip(response_text.post)]

\* response_text.strip() and the two substitutions, lines 119-123
clean_response_text(response_text) ==
    [pre |-> sub_fences(lstrip(response_text.pre)),
     body |-> sub_fences_value(response_text.body),
     post |-> sub_fences(rstrip(response_text.post))]

\* json.loads: JSONDecodeError unless the text is one JSON value with nothing
\* but whitespace around it
json_decodable(text) ==
    /\ \A i \in DOMAIN text.pre : IsWhitespace(text.pre[i])
    /\ \A i \in DOMAIN text.post : IsWhitespace(text.post[i])
    /\ text.body.t # "garbage"
json_loads(text) == text.body

\* `field not in result`: key lookup in a dict, element search in a list,
\* substring search in a string, TypeError for anything else
contains_raises(result) == result.t \notin {"obj", "list", "str"}
contains(result, field) ==
    CASE result.t = "obj" -> field \in DOMAIN result.o
      [] result.t = "list" -> JStr(<<field>>) \in Range(result.l)
      [] result.t = "str" -> field \in Range(result.s)
      [] OTHER -> FALSE

missing_required_field(result) ==
    \E i \in DOMAIN required_fields : ~contains(result, required_fields[i])

\* mutant of ensure_risk_level: the riskLevel of the reply is taken as it is
ensure_risk_level_unchecked(result) == result

ensure_risk_level(result) ==
    IF /\ result.o["riskLevel"].t = "str"
       /\ \E i \in DOMAIN valid_risk_levels :
              result.o["riskLevel"].s = <<valid_risk_levels[i]>>
    THEN result
    ELSE JObj([result.o EXCEPT !["riskLevel"] = JStr(<<"moderate">>)])

\* mutant of ensure_arrays: the list fields of the reply are taken as they are
ensure_arrays_unchecked(result) == result

ensure_arrays(result) ==
    JObj([k \in DOMAIN result.o |->
            IF k \in Range(array_fields) /\ result.o[k].t # "list"
            THEN JList(<<>>)
            ELSE result.o[k]])

\* Returns the report and the return statement that produced it:
\* "result" (line 144), "json_error" (line 149) or "exception" (line 153).
_parse_gemini_response(response_text) ==
    LET cleaned_text == clean_response_text(response_text)
        fallback(via) == [via |-> via,
                          report |-> _create_fallback_response(<<>>, <<>>)]
    IN IF ~json_decodable(cleaned_text) THEN fallback("json_error")
       ELSE LET result == json_loads(cleaned_text)
            IN IF contains_raises(result) THEN fallback("exception")
               ELSE IF missing_required_field(result) THEN fallback("exception")
               ELSE IF result.t # "obj" THEN fallback("exception")
               ELSE [via |-> "result",
                     report |-> ensure_arrays(ensure_risk_level(result))]

\* model = genai.GenerativeModel(...): the model self.model.generate_content calls
GEMINI_MODEL == "gemini-2.5-flash"

\* The generative model answers a call in one of three ways: generate_content
\* raises, the response has no text (reading response.text raises), or the
\* response carries a reply text.
\* Returns raised = TRUE when an exception leaves analyze_report.
analyze_report(report_text, filename, svc) ==
    IF svc.kind = "reply"
    THEN LET parsed == _parse_gemini_response(svc.text)
         IN [raised |-> FALSE, exc |-> "", via |-> parsed.via,
             report |-> parsed.report, model |-> GEMINI_MODEL]
    ELSE \* the handler's first statement names `console`, which is not defined
         [raised |-> TRUE, exc |-> "NameError", via |-> "handler",
          report |-> Absent, model |-> GEMINI_MODEL]

(* ---------------------------------------------------------------------- *)
(* What the generative model may reply                                     *)
(* ---------------------------------------------------------------------- *)
BoundedSeq(S, n) == UNION {[1..k -> S] : k \in 0..n}

FullMed ==
    JObj([name |-> JStr(<<"Metformin 500mg">>),
          purpose |-> JStr(<<"lowers blood sugar">>),
          instructions |-> JStr(<<"twice daily">>),
          sideEffects |-> JStr(<<"nausea">>)])
NameOnlyMed == JObj([name |-> JStr(<<"Lisinopril 10mg">>)])
NoNameMed == JObj([purpose |-> JStr(<<"lowers blood pressure">>)])

MedEntries == {FullMed, NameOnlyMed, NoNameMed, JStr(<<"Metformin 500mg">>), JNull}

\* a reply that follows the schema of the prompt
WellFormed ==
    [keyFindings |-> JList(<<JStr(<<"Hemoglobin: 9.8 g/dL is low">>)>>),
     explanations |-> JList(<<JStr(<<"mild anemia">>)>>),
     recommendations |-> JList(<<JStr(<<"follow up in 3 months">>)>>),
     urgentCare |-> JList(<<JStr(<<"chest pain">>)>>),
     medicationDetails |-> JList(<<FullMed>>),
     riskLevel |-> JStr(<<"low">>),
     disclaimer |-> Absent]

ReplyKeys == DOMAIN WellFormed

WellFormedReport == [k \in Range(required_fields) |-> WellFormed[k]]

\* the other values a key of the reply may carry
Deviations(k) ==
    CASE k = "riskLevel" ->
            {Absent, JNull, JInt(3), JStr(<<"moderate">>), JStr(<<"high">>),
             JStr(<<"severe">>)}
      [] k = "medicationDetails" ->
            ({Absent, JNull, JStr(<<"none">>)}
               \cup {JList(l) : l \in BoundedSeq(MedEntries, MaxMeds)})
            \ {WellFormed[k]}
      [] k = "keyFindings" ->
            {Absent, JNull, JStr(<<"none">>), JList(<<>>),
             JList(<<JStr(<<"see", " ", FENCE, " ", "note">>)>>)}
      [] k = "disclaimer" -> {JStr(<<"not medical advice">>)}
      [] OTHER -> {Absent, JNull, JStr(<<"none">>), JList(<<>>)}

\* one deviating value for each key of D
RECURSIVE DeviationChoices(_)
DeviationChoices(D) ==
    IF D = {} THEN {<<>>}
    ELSE LET k == CHOOSE j \in D : TRUE
         IN {(k :> v) @@ c : v \in Deviations(k), c \in DeviationChoices(D \ {k})}

\* the well-formed reply with at most MaxDefects keys deviating
ReplyObjects ==
    UNION {
        {JObj([k \in {j \in ReplyKeys :
                        (IF j \in D THEN c[j] ELSE WellFormed[j]) # Absent} |->
                 IF k \in D THEN c[k] ELSE WellFormed[k]]) :
            c \in DeviationChoices(D)} :
        D \in {E \in SUBSET ReplyKeys : Cardinality(E) <= MaxDefects}}

\* JSON values that are not objects
ReplyNonObjects ==
    {JNull, JInt(3), JStr(<<"riskLevel">>), JList(<<>>),
     JList([i \in DOMAIN required_fields |-> JStr(<<required_fields[i]>>)])}

\* the payload alone, inside ```json ... ```, and inside ``` ... ```
Wrappers ==
    {[pre |-> <<>>, post |-> <<>>],
     [pre |-> <<FENCE_JSON, "\n">>, post |-> <<"\n", FENCE>>],
     [pre |-> <<FENCE, "\n">>, post |-> <<"\n", FENCE, "\n">>]}

ReplyTexts ==
    {[pre |-> w.pre, body |-> b, post |-> w.post] :
        w \in Wrappers, b \in ReplyObjects \cup ReplyNonObjects \cup {Garbage}}
    \cup {[pre |-> <<"Here is the analysis:", "\n">>, body |-> JObj(WellFormedReport),
           post |-> <<>>]}

ServiceOutcomes ==
    {[kind |-> "raise"], [kind |-> "no_text"]}
        \cup {[kind |-> "reply", text |-> x] : x \in ReplyTexts}

(* ---------------------------------------------------------------------- *)
(* POST /analyze                                                           *)
(* ---------------------------------------------------------------------- *)
app_debug == FALSE

ReportTexts == BoundedSeq({"a", " "}, MaxReportLen)

\* the JSON bodies a client may post
RequestData ==
    {Garbage, JNull, JObj(<<>>), JList(<<JStr(<<"a">>)>>)}
    \cup {JObj([k \in {j \in {"reportText", "filename"} :
                         (IF j = "reportText" THEN rt ELSE fn) # Absent} |->
                  IF k = "reportText" THEN rt ELSE fn]) :
            rt \in {Absent, JNull} \cup {JStr(x) : x \in ReportTexts},
            fn \in {Absent, JStr(<<"r.txt">>)}}

Requests == {[is_json |-> j, data |-> d] : j \in BOOLEAN, d \in RequestData}

\* the truth value Python gives a decoded JSON value
truthy(v) ==
    CASE v.t = "null" -> FALSE
      [] v.t = "num" -> v.n # 0
      [] v.t = "str" -> py_len(v.s) > 0
      [] v.t = "list" -> Len(v.l) > 0
      [] v.t = "obj" -> DOMAIN v.o # {}
      [] OTHER -> TRUE

\* dict.get(key, default)
dict_get(d, key, default) == IF key \in DOMAIN d.o THEN d.o[key] ELSE default

error_response(code, message) ==
    [code |-> code,
     body |-> [error |-> JStr(<<message>>), status |-> JStr(<<"error">>)]]

internal_error_response(message, exc) ==
    [code |-> 500,
     body |-> [error |-> JStr(<<message>>), status |-> JStr(<<"error">>),
               details |-> JStr(<<IF app_debug THEN exc
                                  ELSE "Contact support for assistance">>)]]

NotCalled ==
    [raised |-> FALSE, exc |-> "", via |-> "not_called", report |-> Absent,
     model |-> ""]

\* mutant of missing_report_text: the check of the report text is left out
missing_report_text_unchecked(report_text) == FALSE

\* if not report_text
missing_report_text(report_text) == ~Truthy(report_text)

\* Returns the response and what analyzer.analyze_report did for the request.
analyze_medical_report(req, svc) ==
    LET failed(exc) ==
            [response |-> internal_error_response(
                 "Internal server error occurred while analyzing the report", exc),
             analysis |-> NotCalled]
        rejected(message) ==
            [response |-> error_response(400, message), analysis |-> NotCalled]
    IN IF ~req.is_json THEN rejected("Request must be JSON")
       ELSE IF req.data.t = "garbage" THEN failed("BadRequest")
       ELSE IF ~truthy(req.data) THEN rejected("No data provided")
       ELSE IF req.data.t # "obj" THEN failed("AttributeError")
       ELSE LET raw_text == dict_get(req.data, "reportText", JStr(<<>>))
                filename == dict_get(req.data, "filename", JStr(<<>>))
            IN IF raw_text.t # "str" THEN failed("AttributeError")
               ELSE LET report_text == strip(raw_text.s)
                    IN IF missing_report_text(report_text)
                       THEN rejected("Report text is required")
                       ELSE LET a == analyze_report(report_text, filename.s, svc)
                            IN IF a.raised
                               THEN [failed(a.exc) EXCEPT !.analysis = a]
                               ELSE [response |->
                                       [code |-> 200,
                                        body |->
                                          [status |-> JStr(<<"success">>),
                                           data |-> JObj(
                                             [k \in DOMAIN a.report.o \cup {"metadata"} |->
                                                IF k = "metadata"
                                                THEN JObj([
                                                  filename |-> filename,
                                                  analysisTimestamp |-> JStr(<<"<isoformat>">>),
                                                  reportLength |-> JInt(py_len(report_text)),
                                                  aiModel |-> JStr(<<"gemini-1.5-flash">>)])
                                                ELSE a.report.o[k]])]],
                                     analysis |-> a]

(* ---------------------------------------------------------------------- *)
(* EnhancedScannerProcessor: what the libraries may answer                 *)
(* ---------------------------------------------------------------------- *)
\* The bytes of an image, a PDF or a DOCX upload are read by libraries only;
\* the model represents them by the answers of those libraries.

\* str.join
RECURSIVE join(_, _)
join(sep, parts) ==
    IF parts = <<>> THEN <<>>
    ELSE IF Len(parts) = 1 THEN parts[1]
    ELSE parts[1] \o sep \o join(sep, Tail(parts))

Raise == [raised |-> TRUE]
Answer(v) == [raised |-> FALSE, value |-> v]

\* text of one page as a text-layer reader gives it
PageTexts == {<<>>, <<"\n">>, <<"Hemoglobin: 9.8 g/dL">>}

\* A reader of a paged document either fails to open it, or opens it and
\* answers page by page until a page read raises.
PagedOutcomes(Pages, n) ==
    {Raise}
    \cup {Answer(ps) : ps \in BoundedSeq({Answer(x) : x \in Pages}, n)}
    \cup {Answer(Append(ps, Raise)) :
            ps \in BoundedSeq({Answer(x) : x \in Pages}, n - 1)}

\* easyocr readtext: detected regions with a confidence in tenths
EasyOutcomes ==
    {Raise,
     Answer(<<>>),
     Answer(<<[text |-> <<"Hb">>, conf |-> 9]>>),
     Answer(<<[text |-> <<"Hb">>, conf |-> 5]>>),
     Answer(<<[text |-> <<"Hb">>, conf |-> 9], [text |-> <<"9.8">>, conf |-> 6]>>)}

\* pytesseract image_to_string
TessOutcomes ==
    {Raise, Answer(<<"\n">>), Answer(<<"HB">>), Answer(<<"Hb 9.8 g", "\n">>)}

\* what the two engines do with one bitmap
OcrOutcomes(reader) ==
    {[easy |-> e, tess |-> x] :
        e \in (IF reader THEN EasyOutcomes ELSE {Answer(<<>>)}),
        x \in TessOutcomes}

(* ---------------------------------------------------------------------- *)
(* EnhancedScannerProcessor                                                *)
(* ---------------------------------------------------------------------- *)
confidence_threshold == 5

\* [result[1] for result in results if result[2] > 0.5]
RECURSIVE accepted_texts(_)
accepted_texts(results) ==
    IF results = <<>> THEN <<>>
    ELSE (IF Head(results).conf > confidence_threshold
          THEN <<Head(results).text>> ELSE <<>>)
         \o accepted_texts(Tail(results))

\* mutant of max_by_len: of the longest, the last
RECURSIVE max_by_len_last_wins(_)
max_by_len_last_wins(l) ==
    IF Len(l) = 1 THEN l[1]
    ELSE LET rest == max_by_len_last_wins(Tail(l))
         IN IF py_len(rest) >= py_len(l[1]) THEN rest ELSE l[1]

\* max(text_results, key=len): the first of the longest
RECURSIVE max_by_len(_)
max_by_len(l) ==
    IF Len(l) = 1 THEN l[1]
    ELSE LET rest == max_by_len(Tail(l))
         IN IF py_len(rest) > py_len(l[1]) THEN rest ELSE l[1]

\* mutant of _extract_text_from_image: Tesseract runs only when EasyOCR gave
\* no text
_extract_text_from_image_short_circuit(image, reader, ocr) ==
    LET easy_text ==
            IF reader /\ ~ocr.easy.raised
            THEN join(<<" ">>, accepted_texts(ocr.easy.value))
            ELSE <<>>
        tess_text == IF ocr.tess.raised THEN <<>> ELSE ocr.tess.value
        easy_call == [fn |-> "easyocr.readtext", arg |-> image,
                      raised |-> ocr.easy.raised]
    IN IF reader /\ strip(easy_text) # <<>>
       THEN [text |-> easy_text, calls |-> <<easy_call>>]
       ELSE [text |-> IF strip(tess_text) # <<>> THEN tess_text ELSE <<>>,
             calls |-> (IF reader THEN <<easy_call>> ELSE <<>>)
                       \o <<[fn |-> "pytesseract.image_to_string", arg |-> image,
                             raised |-> ocr.tess.raised]>>]

\* Returns the text and the engines that were run, in order.
_extract_text_from_image(image, reader, ocr) ==
    LET easy_text ==
            IF reader /\ ~ocr.easy.raised
            THEN join(<<" ">>, accepted_texts(ocr.easy.value))
            ELSE <<>>
        tess_text == IF ocr.tess.raised THEN <<>> ELSE ocr.tess.value
        text_results ==
            (IF strip(easy_text) # <<>> THEN <<easy_text>> ELSE <<>>)
            \o (IF strip(tess_text) # <<>> THEN <<tess_text>> ELSE <<>>)
    IN [text |-> IF text_results # <<>> THEN max_by_len(text_results) ELSE <<>>,
        calls |-> (IF reader
                   THEN <<[fn |-> "easyocr.readtext", arg |-> image,
                           raised |-> ocr.easy.raised]>>
                   ELSE <<>>)
                  \o <<[fn |-> "pytesseract.image_to_string", arg |-> image,
                        raised |-> ocr.tess.raised]>>]

\* _enhance_image_for_ocr never raises: it answers the enhanced bitmap, or the
\* bitmap it was given when a step of the enhancement raised
_enhance_image_for_ocr(image, enhance_ok) ==
    IF enhance_ok THEN "enhanced" ELSE image

str_int(n) == ToString(n)

page_entry(page_num, text) == <<"Page ", str_int(page_num), ":", "\n">> \o text

\* One extraction method of process_pdf over the answers of its reader:
\* the entries appended to text_content, whether the method raised, and the
\* page reads made.
RECURSIVE read_pages(_, _, _)
read_pages(pages, page_num, fn) ==
    IF pages = <<>> THEN [entries |-> <<>>, raised |-> FALSE, calls |-> <<>>]
    ELSE LET p == Head(pages)
             call == [fn |-> fn, arg |-> str_int(page_num), raised |-> p.raised]
         IN IF p.raised
            THEN [entries |-> <<>>, raised |-> TRUE, calls |-> <<call>>]
            ELSE LET rest == read_pages(Tail(pages), page_num + 1, fn)
                 IN [entries |->
                        (IF strip(p.value) # <<>>
                         THEN <<page_entry(page_num, p.value)>> ELSE <<>>)
                        \o rest.entries,
                     raised |-> rest.raised,
                     calls |-> <<call>> \o rest.calls]

text_layer_method(open_fn, read_fn, outcome) ==
    IF outcome.raised
    THEN [entries |-> <<>>, raised |-> TRUE,
          calls |-> <<[fn |-> open_fn, arg |-> "pdf_data", raised |-> TRUE]>>]
    ELSE LET r == read_pages(outcome.value, 1, read_fn)
         IN [r EXCEPT !.calls =
                <<[fn |-> open_fn, arg |-> "pdf_data", raised |-> FALSE]>> \o @]

\* Method 2 over the answer of convert_from_bytes: a list of pages, each with
\* what the enhancement and the two engines do with its bitmap
RECURSIVE ocr_pages(_, _, _)
ocr_pages(images, i, reader) ==
    IF images = <<>> THEN [entries |-> <<>>, calls |-> <<>>]
    ELSE LET enhanced_image ==
                _enhance_image_for_ocr("page " \o str_int(i), Head(images).enhance_ok)
             ex == _extract_text_from_image(enhanced_image, reader, Head(images).ocr)
             rest == ocr_pages(Tail(images), i + 1, reader)
         IN [entries |->
                (IF strip(ex.text) # <<>> THEN <<page_entry(i, ex.text)>> ELSE <<>>)
                \o rest.entries,
             calls |-> ex.calls \o rest.calls]

raster_method(outcome, reader) ==
    IF outcome.raised
    THEN [entries |-> <<>>, raised |-> TRUE,
          calls |-> <<[fn |-> "convert_from_bytes", arg |-> "pdf_data", raised |-> TRUE]>>]
    ELSE LET r == ocr_pages(outcome.value, 1, reader)
         IN [entries |-> r.entries, raised |-> FALSE,
             calls |-> <<[fn |-> "convert_from_bytes", arg |-> "pdf_data",
                          raised |-> FALSE]>> \o r.calls]

\* does a method end process_pdf: it ran to its end with text_content non-empty
method_returns(text_content, m) == ~m.raised /\ text_content \o m.entries # <<>>

\* process_pdf after one more method: nothing changes once a method has
\* returned; text_content is one list, created once and shared by the methods
next_method(before, m) ==
    IF before.returned THEN before
    ELSE [text_content |-> before.text_content \o m.entries,
          calls |-> before.calls \o m.calls,
          returned |-> method_returns(before.text_content, m)]

\* mutant of pdf_after_1: method 1 never ends the call
pdf_after_1_no_return(fz) ==
    LET m == text_layer_method("fitz.open", "page.get_text", fz)
    IN [text_content |-> m.entries, calls |-> m.calls, returned |-> FALSE]

\* process_pdf up to and including method 1, 2, 3
pdf_after_1(fz) ==
    next_method([text_content |-> <<>>, calls |-> <<>>, returned |-> FALSE],
                text_layer_method("fitz.open", "page.get_text", fz))

pdf_after_2(fz, rs, reader) ==
    next_method(pdf_after_1(fz), raster_method(rs, reader))

pdf_after_3(fz, rs, pp, reader) ==
    next_method(pdf_after_2(fz, rs, reader),
                text_layer_method("PdfReader", "page.extract_text", pp))

NotRun == [raised |-> FALSE, value |-> <<>>]
NotRunOcr == [easy |-> Answer(<<>>), tess |-> Answer(<<>>)]

\* fz, rs, pp: the answers of fitz, of convert_from_bytes with the engines,
\* and of PdfReader; a method that is not reached gets NotRun
process_pdf(filename, fz, rs, pp, reader) ==
    LET end == pdf_after_3(fz, rs, pp, reader)
    IN [text |-> IF end.returned
                 THEN join(<<"\n", "\n">>, end.text_content)
                 ELSE <<"[PDF] ">> \o filename \o <<" - No text could be extracted">>,
        calls |-> end.calls]

\* mutant of process_image: the adapter is not run a second time
process_image_no_retry(filename, load_ok, enhance_ok, ocr1, ocr2, reader) ==
    IF ~load_ok
    THEN [text |-> <<"[IMAGE] ">> \o filename \o <<" - Processing failed: ", "<str(e)>">>,
          calls |-> <<[fn |-> "Image.open", arg |-> "image_data", raised |-> TRUE]>>]
    ELSE LET enhanced_image == _enhance_image_for_ocr("image", enhance_ok)
             first == _extract_text_from_image(enhanced_image, reader, ocr1)
         IN [text |-> IF strip(first.text) # <<>> THEN strip(first.text)
                      ELSE <<"[IMAGE] ">> \o filename \o <<" - No text detected">>,
             calls |-> <<[fn |-> "Image.open", arg |-> "image_data", raised |-> FALSE]>>
                       \o first.calls]

\* Image.open and image.convert either give a bitmap or raise; ocr1 and ocr2
\* are what the engines do with the enhanced and with the unenhanced bitmap
process_image(filename, load_ok, enhance_ok, ocr1, ocr2, reader) ==
    IF ~load_ok
    THEN [text |-> <<"[IMAGE] ">> \o filename \o <<" - Processing failed: ", "<str(e)>">>,
          calls |-> <<[fn |-> "Image.open", arg |-> "image_data", raised |-> TRUE]>>]
    ELSE LET enhanced_image == _enhance_image_for_ocr("image", enhance_ok)
             first == _extract_text_from_image(enhanced_image, reader, ocr1)
             second == _extract_text_from_image("image", reader, ocr2)
             retry == strip(first.text) = <<>>
             text == IF retry THEN second.text ELSE first.text
         IN [text |-> IF strip(text) # <<>> THEN strip(text)
                      ELSE <<"[IMAGE] ">> \o filename \o <<" - No text detected">>,
             calls |-> <<[fn |-> "Image.open", arg |-> "image_data", raised |-> FALSE]>>
                       \o first.calls
                       \o (IF retry THEN second.calls ELSE <<>>)]

\* doc: Document() raises, or answers the texts of the paragraphs
process_docx(filename, doc) ==
    LET call == [fn |-> "Document", arg |-> "docx_data", raised |-> doc.raised]
    IN IF doc.raised
       THEN [text |-> <<"[DOCX] ">> \o filename \o <<" - Processing failed: ", "<str(e)>">>,
             calls |-> <<call>>]
       ELSE LET kept == SelectSeq(doc.value, LAMBDA para : strip(para) # <<>>)
            IN [text |-> IF join(<<"\n">>, kept) # <<>> THEN join(<<"\n">>, kept)
                         ELSE <<"[DOCX] ">> \o filename \o <<" - No text found">>,
                calls |-> <<call>>]

\* bytes.decode('utf-8', errors): one- and two-byte sequences
is_ascii(b) == b < 128
is_lead2(b) == b >= 194 /\ b <= 223
is_continuation(b) == b >= 128 /\ b <= 191

chr(code) ==
    CASE code = 32 -> " "
      [] code = 10 -> "\n"
      [] code = 97 -> "a"
      [] code = 233 -> "e-acute"
      [] OTHER -> "<chr " \o ToString(code) \o ">"

\* Returns raised = TRUE for a UnicodeDecodeError.
RECURSIVE utf8_decode(_, _)
utf8_decode(data, errors) ==
    IF data = <<>> THEN [raised |-> FALSE, text |-> <<>>]
    ELSE IF is_ascii(data[1])
    THEN LET rest == utf8_decode(Tail(data), errors)
         IN [rest EXCEPT !.text = <<chr(data[1])>> \o @]
    ELSE IF is_lead2(data[1]) /\ Len(data) >= 2 /\ is_continuation(data[2])
    THEN LET rest == utf8_decode(Tail(Tail(data)), errors)
         IN [rest EXCEPT !.text =
                <<chr((data[1] - 192) * 64 + (data[2] - 128))>> \o @]
    ELSE IF errors = "strict" THEN [raised |-> TRUE, text |-> <<>>]
    ELSE LET rest == utf8_decode(Tail(data), errors)
         IN IF errors = "replace"
            THEN [rest EXCEPT !.text = <<"<U+FFFD>">> \o @]
            ELSE rest

\* the Document Router: which branch of process_file a content type takes
word_types ==
    {<<"application/msword">>,
     <<"application/vnd.openxmlformats-officedocument.wordprocessingml.document">>}

\* mutant of route: the image prefix is matched without regard to case
route_ignoring_case(content_type) ==
    IF content_type # <<>> /\ content_type[1] \in {"image/", "IMAGE/"} THEN "image"
    ELSE IF content_type = <<"application/pdf">> THEN "pdf"
    ELSE IF content_type \in word_types THEN "docx"
    ELSE IF content_type = <<"text/plain">> THEN "text"
    ELSE "unsupported"

route(content_type) ==
    IF content_type # <<>> /\ content_type[1] = "image/" THEN "image"
    ELSE IF content_type = <<"application/pdf">> THEN "pdf"
    ELSE IF content_type \in word_types THEN "docx"
    ELSE IF content_type = <<"text/plain">> THEN "text"
    ELSE "unsupported"

\* env: the answers of the libraries the routed branch calls
process_file(file_data, filename, content_type, env, reader) ==
    CASE route(content_type) = "image" ->
            process_image(filename, env.load_ok, env.enhance_ok, env.ocr1, env.ocr2, reader)
      [] route(content_type) = "pdf" ->
            process_pdf(filename, env.fz, env.rs, env.pp, reader)
      [] route(content_type) = "docx" -> process_docx(filename, env.doc)
      [] route(content_type) = "text" ->
            [text |-> utf8_decode(file_data, "ignore").text, calls |-> <<>>]
      [] OTHER ->
            [text |-> <<"[UNSUPPORTED] ">> \o filename
                        \o <<" - File type not supported for processing">>,
             calls |-> <<>>]

(* ---------------------------------------------------------------------- *)
(* What a caller may hand to process_file                                  *)
(* ---------------------------------------------------------------------- *)
ContentTypes ==
    {<<"image/", "png">>, <<"application/pdf">>, <<"application/msword">>,
     <<"application/vnd.openxmlformats-officedocument.wordprocessingml.document">>,
     <<"text/plain">>, <<"text/plain", "; charset=utf-8">>,
     <<"application/unknown-binary">>, <<"IMAGE/", "png">>, <<"image">>, <<>>}

Filenames == {<<>>, <<"scan.bin">>}

\* 'a', ' ', the two bytes of e-acute, and a byte no UTF-8 text contains
ByteAlphabet == {97, 32, 195, 169, 255}
ByteStrings == BoundedSeq(ByteAlphabet, MaxBytes)

\* the bytes of an upload that only a library reads
BinaryData == <<>>


TextLayerOutcomes == PagedOutcomes(PageTexts, MaxPages)

\* what the enhancement and the engines do with the bitmap of one page
RasterPages(reader) ==
    {[enhance_ok |-> e, ocr |-> [easy |-> x, tess |-> y]] :
        e \in BOOLEAN,
        x \in (IF reader
               THEN {Raise, Answer(<<[text |-> <<"Hb">>, conf |-> 9]>>)}
               ELSE {Answer(<<>>)}),
        y \in {Raise, Answer(<<"\n">>), Answer(<<"Hb 9.8 g", "\n">>)}}

RasterOutcomes(reader) ==
    {Raise} \cup {Answer(ps) : ps \in BoundedSeq(RasterPages(reader), MaxImages)}

ParagraphTexts == {<<>>, <<" ">>, <<"Impression: mild anemia">>}

DocxOutcomes ==
    {Raise} \cup {Answer(ps) : ps \in BoundedSeq(ParagraphTexts, MaxParagraphs)}

NoEnv == [none |-> TRUE]

(* ---------------------------------------------------------------------- *)
(* POST /analyze/file                                                      *)
(* ---------------------------------------------------------------------- *)
\* A filename is a sequence of pieces; a piece that starts with a dot is one
\* of DotPieces.
DotPieces == {".txt", ".TXT", ".pdf", ".doc", ".docx", ".md"}

\* os.path.splitext(filename)[1]: the last dotted piece, unless the name
\* begins with it
splitext_ext(filename) ==
    IF Len(filename) >= 2 /\ filename[Len(filename)] \in DotPieces
    THEN filename[Len(filename)] ELSE ""

\* str.lower() on an extension
lower(ext) == IF ext = ".TXT" THEN ".txt" ELSE ext

allowed_extensions == {".txt", ".pdf", ".doc", ".docx"}

UploadNames ==
    {<<>>, <<"report", ".txt">>, <<"report", ".TXT">>, <<"scan", ".pdf">>,
     <<"notes", ".md">>, <<"report">>, <<".txt">>}

\* the bytes of an uploaded file: 'a', ' ' and a byte no UTF-8 text contains,
\* and the two bytes of e-acute
FileBytes ==
    BoundedSeq({97, 32, 255}, MaxReportLen) \cup {<<195, 169>>, <<97, 195, 169>>}

\* request.files has no 'file', or has one with a name and bytes; the bytes
\* are read only for a .txt name
FileRequests ==
    {[has_file |-> FALSE, filename |-> <<>>, data |-> <<>>]}
    \cup UNION {{[has_file |-> TRUE, filename |-> f, data |-> d] :
                    d \in (IF lower(splitext_ext(f)) = ".txt"
                           THEN FileBytes ELSE {<<>>})} :
                f \in UploadNames}

\* Returns the response and what analyzer.analyze_report did for the request.
analyze_medical_file(req, svc) ==
    LET failed(exc) ==
            [response |-> internal_error_response(
                 "Internal server error occurred while analyzing the file", exc),
             analysis |-> NotCalled]
        rejected(message) ==
            [response |-> error_response(400, message), analysis |-> NotCalled]
        file_ext == lower(splitext_ext(req.filename))
    IN IF ~req.has_file THEN rejected("No file provided")
       ELSE IF req.filename = <<>> THEN rejected("No file selected")
       ELSE IF file_ext \notin allowed_extensions
       THEN rejected("File type " \o file_ext \o " not supported")
       ELSE IF file_ext # ".txt"
       THEN rejected("File type " \o file_ext \o " processing not implemented yet")
       ELSE LET content == utf8_decode(req.data, "strict")
            IN IF content.raised THEN failed("UnicodeDecodeError")
               ELSE IF ~Truthy(strip(content.text)) THEN rejected("File is empty")
               ELSE LET a == analyze_report(content.text, req.filename, svc)
                    IN IF a.raised
                       THEN [failed(a.exc) EXCEPT !.analysis = a]
                       ELSE [response |->
                               [code |-> 200,
                                body |->
                                  [status |-> JStr(<<"success">>),
                                   data |-> JObj(
                                     [k \in DOMAIN a.report.o \cup {"metadata"} |->
                                        IF k = "metadata"
                                        THEN JObj([
                                          filename |-> JStr(req.filename),
                                          analysisTimestamp |-> JStr(<<"<isoformat>">>),
                                          reportLength |-> JInt(py_len(content.text)),
                                          aiModel |-> JStr(<<"gemini-1.5-flash">>)])
                                        ELSE a.report.o[k]])]],
                             analysis |-> a]

(* ---------------------------------------------------------------------- *)
(* firebase_auth: require_firebase_auth                                    *)
(* ---------------------------------------------------------------------- *)
\* request.headers.get('Authorization'): None, or the header as pieces, the
\* piece " " being one blank
NoHeader == [present |-> FALSE, value |-> <<>>]
Header(value) == [present |-> TRUE, value |-> value]

AuthHeaders ==
    {NoHeader} \cup {Header(h) : h \in BoundedSeq({"Bearer", " ", "tok"}, MaxHeaderLen)}

\* str.split(' '): the parts between the blanks, empty parts included
RECURSIVE split(_)
split(s) ==
    IF \A i \in DOMAIN s : s[i] # " " THEN <<s>>
    ELSE LET i == CHOOSE k \in DOMAIN s :
                    s[k] = " " /\ \A j \in 1..(k - 1) : s[j] # " "
         IN <<SubSeq(s, 1, i - 1)>> \o split(SubSeq(s, i + 1, Len(s)))

JBool(b) == [t |-> "bool", b |-> b]

\* firebase_auth.verify_id_token(token) raises, or answers the claims of the
\* token; an empty token is never accepted
Raises(exc) == [raised |-> TRUE, exc |-> exc]
NotAsked == [raised |-> FALSE, value |-> <<>>, asked |-> FALSE]
SdkOutcomes(token) ==
    {Raises("InvalidIdTokenError"), Raises("ExpiredIdTokenError"), Raises("ValueError")}
    \cup (IF token = <<>> THEN {}
          ELSE {Answer([uid |-> JStr(<<"u1">>)]),
                Answer([uid |-> JStr(<<"u1">>), email |-> JStr(<<"a@b.c">>),
                        email_verified |-> JBool(TRUE)]),
                Answer([email |-> JStr(<<"a@b.c">>)])})

\* mutant of verify_token: without an initialized SDK the token is let through
verify_token_skips_uninitialized(token, app, sdk) ==
    IF ~app THEN JObj([uid |-> JStr(<<"anonymous">>)])
    ELSE IF sdk.raised THEN JNull
    ELSE IF "uid" \notin DOMAIN sdk.value THEN JNull
    ELSE JObj([uid |-> sdk.value.uid])

\* app: self.app is set; sdk: what verify_id_token does with the token
verify_token(token, app, sdk) ==
    IF ~app THEN JNull
    ELSE IF sdk.raised THEN JNull
    ELSE IF "uid" \notin DOMAIN sdk.value THEN JNull
    ELSE LET get(key, default) ==
                 IF key \in DOMAIN sdk.value THEN sdk.value[key] ELSE default
         IN JObj([uid |-> sdk.value.uid,
                  email |-> get("email", JNull),
                  email_verified |-> get("email_verified", JBool(FALSE)),
                  name |-> get("name", JNull),
                  picture |-> get("picture", JNull),
                  firebase |-> get("firebase", JObj(<<>>))])

\* what the wrapped route answers when it runs
handler_response == [code |-> 200, body |-> [status |-> JStr(<<"success">>)]]

\* decorated_function: the response, the token handed to verify_token,
\* request.user, and whether the wrapped route ran
require_firebase_auth(auth_header, app, sdk) ==
    LET unauthorized(message, token) ==
            [response |-> error_response(401, message), token |-> token,
             user |-> Absent, handler_invoked |-> FALSE]
    IN IF ~auth_header.present \/ ~Truthy(auth_header.value)
       THEN unauthorized("Authorization header missing", Absent)
       ELSE IF Len(split(auth_header.value)) < 2
       THEN unauthorized("Invalid authorization header format", Absent)
       ELSE LET token == split(auth_header.value)[2]
                user_info == verify_token(token, app, sdk)
            IN IF ~truthy(user_info)
               THEN unauthorized("Invalid or expired token", JStr(token))
               ELSE [response |-> handler_response, token |-> JStr(token),
                     user |-> user_info, handler_invoked |-> TRUE]

NotImported == [imported |-> FALSE, app |-> FALSE]
NoAuth == [auth_header |-> NoHeader, sdk |-> NotAsked, response |-> [code |-> 0, body |-> <<>>],
           token |-> Absent, user |-> Absent, handler_invoked |-> FALSE]

(* ---------------------------------------------------------------------- *)
(* The server                                                              *)
(* ---------------------------------------------------------------------- *)
NoRequest == [is_json |-> FALSE, data |-> Absent]
NoService == [kind |-> "none"]
NoResponse == [code |-> 0, body |-> <<>>]

NoUpload == [file_data |-> <<>>, filename |-> <<>>, content_type |-> <<>>]

\* analyzer = MedicalReportAnalyzer() and scanner_processor =
\* EnhancedScannerProcessor(): _init_ocr leaves a reader, or None when
\* easyocr.Reader raised
Init ==
    /\ pc = "idle"
    /\ request = NoRequest
    /\ service = NoService
    /\ analysis = NotCalled
    /\ response = NoResponse
    /\ easyocr_reader \in BOOLEAN
    /\ upload = NoUpload
    /\ library = NoEnv
    /\ calls = <<>>
    /\ extracted = <<>>
    /\ firebase_auth_manager = NotImported
    /\ auth = NoAuth

\* One POST /analyze request, handled to completion.  The generative model
\* answers only when the request reaches analyzer.analyze_report.
AnalyzeMedicalReport ==
    /\ pc = "idle"
    /\ pc' = "analyze"
    /\ UNCHANGED <<easyocr_reader, scanner_vars, auth_vars>>
    /\ \E req \in Requests :
         /\ request' = req
         /\ IF analyze_medical_report(req, NoService).analysis.via = "not_called"
            THEN service' = NoService
            ELSE \E svc \in ServiceOutcomes : service' = svc
    /\ LET out == analyze_medical_report(request', service')
       IN /\ analysis' = out.analysis
          /\ response' = out.response

\* One POST /analyze/file request, handled to completion.
AnalyzeMedicalFile ==
    /\ pc = "idle"
    /\ pc' = "analyze_file"
    /\ UNCHANGED <<easyocr_reader, scanner_vars, auth_vars>>
    /\ \E req \in FileRequests :
         /\ request' = req
         /\ IF analyze_medical_file(req, NoService).analysis.via = "not_called"
            THEN service' = NoService
            ELSE \E svc \in ServiceOutcomes : service' = svc
    /\ LET out == analyze_medical_file(request', service')
       IN /\ analysis' = out.analysis
          /\ response' = out.response

\* One call of scanner_processor.process_file.  The libraries answer only the
\* calls that are made: a method of process_pdf that is not reached, and the
\* second run of the engines in process_image when the first gave text, get
\* the placeholders NotRun and NotRunOcr.
ProcessFile ==
    /\ pc = "idle"
    /\ pc' = "process_file"
    /\ UNCHANGED <<easyocr_reader, analyzer_vars, auth_vars>>
    /\ \E content_type \in ContentTypes, filename \in Filenames :
         \E file_data \in (IF route(content_type) \in {"text", "unsupported"}
                           THEN ByteStrings ELSE {BinaryData}) :
           upload' = [file_data |-> file_data, filename |-> filename,
                      content_type |-> content_type]
    /\ LET image_env(l, e, o1, o2) ==
               [load_ok |-> l, enhance_ok |-> e, ocr1 |-> o1, ocr2 |-> o2]
           pdf_env(fz, rs, pp) == [fz |-> fz, rs |-> rs, pp |-> pp]
       IN CASE route(upload'.content_type) = "image" ->
                \/ library' = image_env(FALSE, FALSE, NotRunOcr, NotRunOcr)
                \/ \E e \in BOOLEAN, o1 \in OcrOutcomes(easyocr_reader) :
                     IF strip(_extract_text_from_image("x", easyocr_reader, o1).text) # <<>>
                     THEN library' = image_env(TRUE, e, o1, NotRunOcr)
                     ELSE \E o2 \in OcrOutcomes(easyocr_reader) :
                            library' = image_env(TRUE, e, o1, o2)
            [] route(upload'.content_type) = "pdf" ->
                \E fz \in TextLayerOutcomes :
                  IF pdf_after_1(fz).returned
                  THEN library' = pdf_env(fz, NotRun, NotRun)
                  ELSE \E rs \in RasterOutcomes(easyocr_reader) :
                         IF pdf_after_2(fz, rs, easyocr_reader).returned
                         THEN library' = pdf_env(fz, rs, NotRun)
                         ELSE \E pp \in TextLayerOutcomes :
                                library' = pdf_env(fz, rs, pp)
            [] route(upload'.content_type) = "docx" ->
                \E doc \in DocxOutcomes : library' = [doc |-> doc]
            [] OTHER -> library' = NoEnv
    /\ LET out == process_file(upload'.file_data, upload'.filename,
                               upload'.content_type, library', easyocr_reader)
       IN /\ calls' = out.calls
          /\ extracted' = out.text

\* One call of scanner_processor._extract_text_from_image on a bitmap.
ExtractTextFromImage ==
    /\ pc = "idle"
    /\ pc' = "extract_text"
    /\ UNCHANGED <<easyocr_reader, analyzer_vars, auth_vars>>
    /\ upload' = NoUpload
    /\ \E ocr \in OcrOutcomes(easyocr_reader) : library' = [ocr |-> ocr]
    /\ LET out == _extract_text_from_image("image", easyocr_reader, library'.ocr)
       IN /\ calls' = out.calls
          /\ extracted' = out.text

\* import firebase_auth: the global FirebaseAuthManager() is constructed, and
\* _initialize_firebase leaves self.app set, or None when the initialization
\* raised
FirebaseAuthManager ==
    /\ pc = "idle"
    /\ ~firebase_auth_manager.imported
    /\ \E app \in BOOLEAN :
         firebase_auth_manager' = [imported |-> TRUE, app |-> app]
    /\ UNCHANGED <<pc, easyocr_reader, analyzer_vars, scanner_vars, auth>>

\* One request to a route wrapped by require_firebase_auth.  The SDK answers
\* only when verify_token asks it.
RequireFirebaseAuth ==
    /\ pc = "idle"
    /\ firebase_auth_manager.imported
    /\ pc' = "require_firebase_auth"
    /\ UNCHANGED <<easyocr_reader, analyzer_vars, scanner_vars, firebase_auth_manager>>
    /\ \E auth_header \in AuthHeaders :
         LET probe == require_firebase_auth(auth_header, FALSE, NotAsked)
         IN \E sdk \in (IF probe.token # Absent /\ firebase_auth_manager.app
                        THEN SdkOutcomes(probe.token.s) ELSE {NotAsked}) :
              LET out == require_firebase_auth(auth_header,
                                               firebase_auth_manager.app, sdk)
              IN auth' = [auth_header |-> auth_header, sdk |-> sdk,
                          response |-> out.response, token |-> out.token,
                          user |-> out.user,
                          handler_invoked |-> out.handler_invoked]

\* the outcome is handed back and the server waits for the next request
NextRequest ==
    /\ pc # "idle"
    /\ pc' = "idle"
    /\ request' = NoRequest
    /\ service' = NoService
    /\ analysis' = NotCalled
    /\ response' = NoResponse
    /\ upload' = NoUpload
    /\ library' = NoEnv
    /\ calls' = <<>>
    /\ extracted' = <<>>
    /\ auth' = NoAuth
    /\ UNCHANGED <<easyocr_reader, firebase_auth_manager>>

Next ==
    \/ AnalyzeMedicalReport
    \/ AnalyzeMedicalFile
    \/ ProcessFile
    \/ ExtractTextFromImage
    \/ FirebaseAuthManager
    \/ RequireFirebaseAuth
    \/ NextRequest

vars == <<pc, request, service, analysis, response, easyocr_reader, upload,
          library, calls, extracted, firebase_auth_manager, auth>>

Spec == Init /\ [][Next]_vars

\* the server with only requests to the two analysis endpoints
NextAnalyze == AnalyzeMedicalReport \/ AnalyzeMedicalFile \/ NextRequest
SpecAnalyze == Init /\ [][NextAnalyze]_vars

\* only calls of the scanner processor
NextScan == ProcessFile \/ ExtractTextFromImage \/ NextRequest
SpecScan == Init /\ [][NextScan]_vars

\* only requests to a route under require_firebase_auth
NextAuth == FirebaseAuthManager \/ RequireFirebaseAuth \/ NextRequest
SpecAuth == Init /\ [][NextAuth]_vars

(* ---------------------------------------------------------------------- *)
(* Properties                                                              *)
(* ---------------------------------------------------------------------- *)
\* analyzer.analyze_report ran for the request the state holds
AnalyzerCalled == pc \in {"analyze", "analyze_file"} /\ analysis.via # "not_called"

\* the generative model replied, and what json.loads made of the reply
Replied == AnalyzerCalled /\ service.kind = "reply"
ReplyDecodes == Replied /\ json_decodable(clean_response_text(service.text))
Decoded == json_loads(clean_response_text(service.text))

IsAnalysisReport(v) ==
    /\ v.t = "obj"
    /\ \A i \in DOMAIN required_fields :
         /\ required_fields[i] \in DOMAIN v.o
         /\ v.o[required_fields[i]].t \notin {"null", "absent"}
    /\ \A i \in DOMAIN array_fields : v.o[array_fields[i]].t = "list"

RiskLevels == {JStr(<<"low">>), JStr(<<"moderate">>), JStr(<<"high">>)}

\* a is a contiguous part of b
IsSubSeq(a, b) ==
    \E i \in 1..(Len(b) - Len(a) + 1) : SubSeq(b, i, i + Len(a) - 1) = a

\* C1: analyze_report never lets an exception out: whenever it is called it
\* returns a valid AnalysisReport, also when the service call raises.
C1_NeverPropagates ==
    AnalyzerCalled =>
        /\ ~analysis.raised
        /\ IsAnalysisReport(analysis.report)
        /\ analysis.report.o["riskLevel"] \in RiskLevels

\* C2: when the interpretation backend raises, POST /analyze with a non-empty
\* reportText still answers 200 "success" with riskLevel "moderate" and a
\* non-empty recommendations list.
C2_BackendFailureStillSuccess ==
    (AnalyzerCalled /\ service.kind \in {"raise", "no_text"}) =>
        /\ response.code = 200
        /\ response.body.status = JStr(<<"success">>)
        /\ response.body.data.o["riskLevel"] = JStr(<<"moderate">>)
        /\ response.body.data.o["recommendations"].t = "list"
        /\ response.body.data.o["recommendations"].l # <<>>

SupportedType(content_type) ==
    \/ content_type # <<>> /\ content_type[1] = "image/"
    \/ content_type \in {<<"application/pdf">>, <<"text/plain">>} \cup word_types

\* C3: for every supported content type and every byte content, process_file
\* returns a string of length > 0.
C3_ExtractionNeverEmpty ==
    (pc = "process_file" /\ SupportedType(upload.content_type)) =>
        py_len(extracted) > 0

DefaultOf(field) == IF field = "riskLevel" THEN JStr(<<"moderate">>) ELSE JList(<<>>)

\* the reply decodes to an object that lacks at least one required field
ReplyLacksField ==
    /\ ReplyDecodes
    /\ Decoded.t = "obj"
    /\ \E i \in DOMAIN required_fields : required_fields[i] \notin DOMAIN Decoded.o

\* C4: a reply object that lacks required fields is not discarded: the missing
\* fields get their defaults, the fields that were present (and well typed)
\* keep their values, and the report is the repaired reply, not the Fallback.
C4_MissingFieldsRepaired ==
    ReplyLacksField =>
        /\ analysis.via = "result"
        /\ \A i \in DOMAIN required_fields :
             LET f == required_fields[i]
             IN IF f \notin DOMAIN Decoded.o
                THEN analysis.report.o[f] = DefaultOf(f)
                ELSE (IsAnalysisReport(JObj([WellFormedReport EXCEPT ![f] = Decoded.o[f]]))
                        => analysis.report.o[f] = Decoded.o[f])

\* C5: every report _parse_gemini_response returns has all six fields, none
\* null, the five list fields being lists.
C5_AllFieldsPresentAndTyped ==
    Replied => (~analysis.raised /\ IsAnalysisReport(analysis.report))

\* a reply object lacking a required field went through _parse_gemini_response
C5_Witness ==
    ReplyLacksField /\ ~analysis.raised /\ IsAnalysisReport(analysis.report)

\* C6: riskLevel of every returned report is one of low, moderate, high, and a
\* reply whose riskLevel is anything else yields "moderate".
C6_RiskLevelClosed ==
    (AnalyzerCalled /\ ~analysis.raised) =>
        /\ analysis.report.o["riskLevel"] \in RiskLevels
        /\ (/\ ReplyDecodes
            /\ Decoded.t = "obj"
            /\ "riskLevel" \in DOMAIN Decoded.o
            /\ Decoded.o["riskLevel"] \notin RiskLevels)
           => analysis.report.o["riskLevel"] = JStr(<<"moderate">>)

\* a complete reply with riskLevel "severe" was returned as "moderate"
C6_Witness ==
    /\ ReplyDecodes
    /\ analysis.via = "result"
    /\ Decoded.o["riskLevel"] = JStr(<<"severe">>)
    /\ analysis.report.o["riskLevel"] = JStr(<<"moderate">>)

NotSpecified == JStr(<<"Not specified">>)

\* the reply went through validation and carried a medication list
ReplyHasMedications ==
    /\ ReplyDecodes
    /\ analysis.via = "result"
    /\ Decoded.o["medicationDetails"].t = "list"

\* C7: a medication record of the reply that carries only a name is returned
\* with that name and "Not specified" for purpose, instructions and
\* sideEffects; a record without a name is returned with name "Unknown".
C7_MedicationDefaults ==
    ReplyHasMedications =>
        \A i \in DOMAIN Decoded.o["medicationDetails"].l :
            LET given == Decoded.o["medicationDetails"].l[i]
                returned == Range(analysis.report.o["medicationDetails"].l)
            IN given.t = "obj" =>
                 \E m \in returned :
                    /\ m.t = "obj"
                    /\ DOMAIN m.o = {"name", "purpose", "instructions", "sideEffects"}
                    /\ m.o["name"] = IF "name" \in DOMAIN given.o
                                     THEN given.o["name"] ELSE JStr(<<"Unknown">>)
                    /\ \A k \in {"purpose", "instructions", "sideEffects"} :
                         m.o[k] = IF k \in DOMAIN given.o THEN given.o[k]
                                  ELSE NotSpecified

\* C8: every entry of medicationDetails of a returned report is a record with
\* name, purpose, instructions and sideEffects.
C8_MedicationEntriesComplete ==
    (AnalyzerCalled /\ ~analysis.raised) =>
        \A i \in DOMAIN analysis.report.o["medicationDetails"].l :
            LET m == analysis.report.o["medicationDetails"].l[i]
            IN /\ m.t = "obj"
               /\ {"name", "purpose", "instructions", "sideEffects"} \subseteq DOMAIN m.o

\* process_file ran process_pdf for the upload the state holds
PdfProcessed == pc = "process_file" /\ upload.content_type = <<"application/pdf">>

\* the pages of a text-layer reader that gave non-empty text
Yielded(outcome) ==
    IF outcome.raised THEN {}
    ELSE {i \in DOMAIN outcome.value :
            ~outcome.value[i].raised /\ strip(outcome.value[i].value) # <<>>}

\* the reader opened the document and read every page without raising
Completed(outcome) ==
    ~outcome.raised /\ \A i \in DOMAIN outcome.value : ~outcome.value[i].raised

\* the pages of the rasterizer for which the engines gave non-empty text
RasterYielded ==
    IF library.rs.raised THEN {}
    ELSE {i \in DOMAIN library.rs.value :
            strip(_extract_text_from_image("x", easyocr_reader,
                                           library.rs.value[i].ocr).text) # <<>>}

Invoked(fns) == \E i \in DOMAIN calls : calls[i].fn \in fns

RasterAndOcr ==
    {"convert_from_bytes", "easyocr.readtext", "pytesseract.image_to_string"}
LegacyReader == {"PdfReader", "page.extract_text"}

\* once the rasterize-and-OCR method has produced text, the legacy reader is
\* not run
RasterShortCircuits ==
    RasterYielded # {} =>
        /\ \A i \in RasterYielded :
             IsSubSeq(_extract_text_from_image("x", easyocr_reader,
                                               library.rs.value[i].ocr).text,
                      extracted)
        /\ ~Invoked(LegacyReader)

\* C9 as stated: if direct text-layer extraction yields non-empty text on any
\* page, the returned text contains that page's text and neither the
\* rasterizer, nor the OCR adapter, nor the legacy reader is invoked; once a
\* method has produced non-empty text, no later method is run.
C9_AnyPageShortCircuits ==
    PdfProcessed =>
        /\ Yielded(library.fz) # {} =>
             /\ \A i \in Yielded(library.fz) :
                  IsSubSeq(library.fz.value[i].value, extracted)
             /\ ~Invoked(RasterAndOcr \cup LegacyReader)
        /\ RasterShortCircuits

\* C9 amended: the short circuit holds when direct text-layer extraction read
\* every page without raising and yielded non-empty text on some page.
C9_CompletedMethodShortCircuits ==
    PdfProcessed =>
        /\ (Completed(library.fz) /\ Yielded(library.fz) # {}) =>
             /\ \A i \in Yielded(library.fz) :
                  IsSubSeq(library.fz.value[i].value, extracted)
             /\ ~Invoked(RasterAndOcr \cup LegacyReader)
        /\ RasterShortCircuits

\* the text layer was read to the end, gave text, and ended the call
C9_Witness ==
    /\ PdfProcessed
    /\ Completed(library.fz)
    /\ Yielded(library.fz) # {}
    /\ calls[Len(calls)].fn = "page.get_text"
    /\ IsSubSeq(<<"Hemoglobin: 9.8 g/dL">>, extracted)

UnsupportedSentinel(filename) ==
    <<"[UNSUPPORTED] ">> \o filename \o <<" - File type not supported for processing">>

\* C10: for a content type that is not image/*, application/pdf, a
\* word-processing type or text/plain, process_file returns the "unsupported"
\* sentinel naming the file and invokes no extraction strategy.
C10_UnsupportedSentinel ==
    (pc = "process_file" /\ ~SupportedType(upload.content_type)) =>
        /\ extracted = UnsupportedSentinel(upload.filename)
        /\ calls = <<>>

\* application/unknown-binary was answered with the sentinel
C10_Witness ==
    /\ pc = "process_file"
    /\ upload.content_type = <<"application/unknown-binary">>
    /\ upload.filename = <<"scan.bin">>
    /\ extracted = UnsupportedSentinel(<<"scan.bin">>)

(* ---------------------------------------------------------------------- *)
(* Input validation of the two endpoints                                   *)
(* ---------------------------------------------------------------------- *)
\* the body of the POST /analyze request has no reportText, or one that is
\* empty once trimmed
ReportTextMissingOrEmpty ==
    /\ pc = "analyze"
    /\ request.data.t = "obj"
    /\ \/ "reportText" \notin DOMAIN request.data.o
       \/ /\ request.data.o["reportText"].t = "str"
          /\ \A i \in DOMAIN request.data.o["reportText"].s :
                IsWhitespace(request.data.o["reportText"].s[i])

SupportedExtensions == {".txt", ".TXT", ".pdf", ".doc", ".docx"}

\* the POST /analyze/file request has no file, a file without a name, or a
\* name that does not end in a supported extension
FileMissingOrUnsupported ==
    /\ pc = "analyze_file"
    /\ \/ ~request.has_file
       \/ request.filename = <<>>
       \/ request.filename[Len(request.filename)] \notin SupportedExtensions

RejectedWith400 ==
    /\ response.code = 400
    /\ response.body.status = JStr(<<"error">>)
    /\ "error" \in DOMAIN response.body
    /\ response.body.error.t = "str"
    /\ Truthy(response.body.error.s)

\* C11: a POST /analyze request whose reportText is missing or empty after
\* trimming, and a POST /analyze/file request with no file, an empty filename
\* or an unsupported extension, is answered with HTTP 400, status "error" and
\* an error message, and analyzer.analyze_report is not invoked for it.
C11_InputErrorsRejected ==
    (ReportTextMissingOrEmpty \/ FileMissingOrUnsupported)
        => (RejectedWith400 /\ analysis.via = "not_called")

\* a report text of one blank is rejected
C11_Witness ==
    /\ ReportTextMissingOrEmpty
    /\ request.is_json
    /\ "reportText" \in DOMAIN request.data.o
    /\ request.data.o["reportText"] = JStr(<<" ">>)
    /\ RejectedWith400
    /\ analysis.via = "not_called"

(* ---------------------------------------------------------------------- *)
(* Validation of a reply                                                   *)
(* ---------------------------------------------------------------------- *)
\* a reply text that spells the JSON value v and nothing else
PayloadAlone(v) == [pre |-> <<>>, body |-> v, post |-> <<>>]

\* the same payload between ```json and ```
FencedPayload(v) == [pre |-> <<FENCE_JSON, "\n">>, body |-> v, post |-> <<"\n", FENCE>>]

IsStringList(v) == v.t = "list" /\ \A i \in DOMAIN v.l : v.l[i].t = "str"

IsMedicationRecord(m) ==
    /\ m.t = "obj"
    /\ DOMAIN m.o = {"name", "purpose", "instructions", "sideEffects"}
    /\ \A k \in DOMAIN m.o : m.o[k].t = "str"

\* v is an AnalysisReport as the schema of the prompt describes it
IsValidAnalysisReport(v) ==
    /\ v.t = "obj"
    /\ Range(required_fields) \subseteq DOMAIN v.o
    /\ v.o["riskLevel"] \in RiskLevels
    /\ \A k \in {"keyFindings", "explanations", "recommendations", "urgentCare"} :
          IsStringList(v.o[k])
    /\ v.o["medicationDetails"].t = "list"
    /\ \A i \in DOMAIN v.o["medicationDetails"].l :
          IsMedicationRecord(v.o["medicationDetails"].l[i])

\* the reply text is a valid AnalysisReport and nothing else
ReplyIsValidReport ==
    /\ Replied
    /\ json_decodable(service.text)
    /\ IsValidAnalysisReport(json_loads(service.text))

\* C12: validation is idempotent: a reply that already is a valid
\* AnalysisReport is returned with every field unchanged, and validating the
\* returned report again gives the same report.
C12_ValidationIdempotent ==
    ReplyIsValidReport =>
        /\ analysis.via = "result"
        /\ \A k \in DOMAIN json_loads(service.text).o :
              /\ k \in DOMAIN analysis.report.o
              /\ analysis.report.o[k] = json_loads(service.text).o[k]
        /\ _parse_gemini_response(PayloadAlone(analysis.report)).report
              = analysis.report

\* C13: a reply that is a JSON payload between ```json and ``` is decoded to
\* exactly the report that the reply with the payload alone is decoded to.
C13_FenceTransparent ==
    (Replied /\ service.text.body # Garbage
        /\ service.text = FencedPayload(service.text.body)) =>
        /\ analysis.report
              = _parse_gemini_response(PayloadAlone(service.text.body)).report
        /\ analysis.via
              = _parse_gemini_response(PayloadAlone(service.text.body)).via

\* the fenced well-formed report is returned as the validated reply
C13_Witness ==
    /\ Replied
    /\ service.text = FencedPayload(JObj(WellFormedReport))
    /\ analysis.via = "result"
    /\ analysis.report = JObj(WellFormedReport)

(* ---------------------------------------------------------------------- *)
(* The wire contract of the two endpoints                                  *)
(* ---------------------------------------------------------------------- *)
Answered == pc \in {"analyze", "analyze_file"}
Success == Answered /\ response.code = 200

\* C14: on a success response data has exactly the six keys of an
\* AnalysisReport and metadata, no other key of the reply; on an error
\* response there is an error message string and no data.
C14_DataIsReportPlusMetadata ==
    Answered =>
        IF response.code = 200
        THEN /\ response.body.status = JStr(<<"success">>)
             /\ DOMAIN response.body.data.o
                   = Range(required_fields) \cup {"metadata"}
        ELSE /\ response.body.status = JStr(<<"error">>)
             /\ response.body.error.t = "str"
             /\ "data" \notin DOMAIN response.body

\* the filename of the request and the text handed to analyze_report
RequestFilename ==
    IF pc = "analyze"
    THEN (IF "filename" \in DOMAIN request.data.o
          THEN request.data.o["filename"] ELSE JStr(<<>>))
    ELSE JStr(request.filename)

AnalyzedText ==
    IF pc = "analyze"
    THEN strip(request.data.o["reportText"].s)
    ELSE utf8_decode(request.data, "strict").text

\* one character for each piece that stands for a character, the length of
\* the piece otherwise
RECURSIVE CharCount(_)
CharCount(text) ==
    IF text = <<>> THEN 0
    ELSE (IF Head(text) \in {"e-acute", "<U+FFFD>"} THEN 1 ELSE Len(Head(text)))
         + CharCount(Tail(text))

\* C15: the data of every success response carries metadata with the
\* filename of the request, a timestamp, the character length of the text
\* that was analyzed and the name of the generative model that was invoked.
C15_MetadataDescribesRequest ==
    Success =>
        LET metadata == response.body.data.o["metadata"].o
        IN /\ metadata.filename = RequestFilename
           /\ metadata.analysisTimestamp = JStr(<<"<isoformat>">>)
           /\ metadata.reportLength = JInt(CharCount(AnalyzedText))
           /\ metadata.aiModel = JStr(<<analysis.model>>)

(* ---------------------------------------------------------------------- *)
(* The text process_pdf returns                                            *)
(* ---------------------------------------------------------------------- *)
\* the positions of the page headers "Page n:" in the returned text
PageHeaders == {i \in DOMAIN extracted : extracted[i] = "Page "}

\* C16: the text process_pdf returns comes from one strategy only: no page
\* text gathered by a strategy that failed or yielded nothing appears next to
\* page text of a later strategy, so no two pages of the result carry the
\* same page-number header.
C16_SingleStrategy ==
    PdfProcessed =>
        \A i, j \in PageHeaders : i # j => extracted[i + 1] # extracted[j + 1]

(* ---------------------------------------------------------------------- *)
(* The Fallback report                                                     *)
(* ---------------------------------------------------------------------- *)
\* the reply cannot be decoded, or what it decodes to is not an object with
\* the six required fields
ReplyUnusable ==
    /\ Replied
    /\ \/ ~json_decodable(clean_response_text(service.text))
       \/ Decoded.t # "obj"
       \/ ~(Range(required_fields) \subseteq DOMAIN Decoded.o)

ServiceCallFailed == AnalyzerCalled /\ service.kind \in {"raise", "no_text"}

FixedFallback == _create_fallback_response(<<>>, <<>>)

\* C17: the report returned on failure is one fixed payload, the same for
\* every report text and filename, and the same whether the service call
\* raised or the reply could not be decoded or validated.
C17_FallbackIsFixed ==
    (ServiceCallFailed \/ ReplyUnusable) =>
        /\ ~analysis.raised
        /\ analysis.report = FixedFallback

(* ---------------------------------------------------------------------- *)
(* Plain-text input                                                        *)
(* ---------------------------------------------------------------------- *)
\* the bytes decoded with a replacement marker for each undecodable byte
DecodedWithMarkers(data) == utf8_decode(data, "replace").text

PlainTextBranch == pc = "process_file" /\ upload.content_type = <<"text/plain">>

\* POST /analyze/file read and decoded the bytes of a .txt upload
TxtFileRead ==
    /\ pc = "analyze_file"
    /\ request.has_file
    /\ Len(request.filename) >= 2
    /\ request.filename[Len(request.filename)] \in {".txt", ".TXT"}

\* C18: plain-text input is decoded as UTF-8 without ever failing, every
\* undecodable byte replaced by a marker: the text/plain branch of
\* process_file returns that text, and the .txt branch of /analyze/file
\* gives no error for the bytes and analyzes that text.
C18_DecodingNeverFails ==
    /\ PlainTextBranch => extracted = DecodedWithMarkers(upload.file_data)
    /\ TxtFileRead =>
          /\ analysis.via = "not_called" => response.code = 400
          /\ response.code = 200 =>
                response.body.data.o["metadata"].o["reportLength"]
                    = JInt(CharCount(DecodedWithMarkers(request.data)))

(* ---------------------------------------------------------------------- *)
(* The OCR adapter                                                         *)
(* ---------------------------------------------------------------------- *)
AdapterCalled == pc = "extract_text"

HasContent(text) == \E i \in DOMAIN text : ~IsWhitespace(text[i])

AcceptedRegion(region) == 10 * region.conf > 50

\* what each engine contributes: the accepted regions of EasyOCR joined by
\* blanks, the text of Tesseract; nothing from an engine that raised or was
\* not initialized
EasyCandidate ==
    IF easyocr_reader /\ ~library.ocr.easy.raised
    THEN LET regions == SelectSeq(library.ocr.easy.value, AcceptedRegion)
         IN join(<<" ">>, [i \in DOMAIN regions |-> regions[i].text])
    ELSE <<>>

TessCandidate == IF library.ocr.tess.raised THEN <<>> ELSE library.ocr.tess.value

\* the texts with content, in the order the engines are attempted
Candidates == SelectSeq(<<EasyCandidate, TessCandidate>>, HasContent)

\* C19: _extract_text_from_image returns the longest, by character count, of
\* the non-empty (not blank) texts of the engines attempted, the text of the
\* engine attempted first when two are equally long, and the empty string
\* exactly when every engine failed or produced nothing.
C19_LongestCandidate ==
    AdapterCalled =>
        IF Candidates = <<>> THEN extracted = <<>>
        ELSE \E i \in DOMAIN Candidates :
                /\ extracted = Candidates[i]
                /\ \A j \in DOMAIN Candidates :
                      /\ CharCount(Candidates[j]) <= CharCount(Candidates[i])
                      /\ j < i => CharCount(Candidates[j]) < CharCount(Candidates[i])

\* two texts of the same length: the one of EasyOCR is returned
C19_Witness ==
    /\ AdapterCalled
    /\ Len(Candidates) = 2
    /\ Candidates[1] # Candidates[2]
    /\ CharCount(Candidates[1]) = CharCount(Candidates[2])
    /\ extracted = Candidates[1]

EngineCalls(fn) == {i \in DOMAIN calls : calls[i].fn = fn}

\* C20: Tesseract is run on every call, whether EasyOCR gave text, gave
\* nothing, raised or was not initialized; an engine that raised contributes
\* no candidate and its exception does not leave the adapter.
C20_EnginesIsolated ==
    AdapterCalled =>
        /\ Cardinality(EngineCalls("pytesseract.image_to_string")) = 1
        /\ Cardinality(EngineCalls("easyocr.readtext"))
              = (IF easyocr_reader THEN 1 ELSE 0)
        /\ (easyocr_reader /\ library.ocr.easy.raised) =>
              extracted = (IF HasContent(TessCandidate) THEN TessCandidate ELSE <<>>)
        /\ library.ocr.tess.raised =>
              extracted = (IF HasContent(EasyCandidate) THEN EasyCandidate ELSE <<>>)

\* EasyOCR gave text and Tesseract, run after it, raised
C20_Witness ==
    /\ AdapterCalled
    /\ easyocr_reader
    /\ HasContent(EasyCandidate)
    /\ library.ocr.tess.raised
    /\ Len(calls) = 2
    /\ calls[2].fn = "pytesseract.image_to_string"
    /\ extracted = EasyCandidate

(* ---------------------------------------------------------------------- *)
(* process_image                                                           *)
(* ---------------------------------------------------------------------- *)
ImageProcessed ==
    /\ pc = "process_file"
    /\ upload.content_type # <<>>
    /\ upload.content_type[1] = "image/"

\* the bitmaps the adapter was run on, in order: Tesseract is called once in
\* every run of the adapter
AdapterRuns ==
    LET ran == SelectSeq(calls, LAMBDA c : c.fn = "pytesseract.image_to_string")
    IN [i \in DOMAIN ran |-> ran[i].arg]

\* what the adapter gives for the answers of the engines in one run
AdapterText(ocr) == _extract_text_from_image("x", easyocr_reader, ocr).text

NoTextDetected == <<"[IMAGE] ">> \o upload.filename \o <<" - No text detected">>

\* C21: for an image that can be loaded, process_image runs the OCR adapter
\* first on the bitmap the enhancement returned and a second time, on the
\* unenhanced bitmap, if and only if the first result was empty (blank); it
\* runs the adapter at most twice, and when both results are empty it returns
\* the no-text-detected sentinel naming the file; it never returns the empty
\* string.
C21_RetryOnUnenhanced ==
    ImageProcessed =>
        /\ Len(AdapterRuns) <= 2
        /\ CharCount(extracted) > 0
        /\ library.load_ok =>
              /\ Len(AdapterRuns) >= 1
              /\ AdapterRuns[1] = (IF library.enhance_ok THEN "enhanced" ELSE "image")
              /\ Len(AdapterRuns) = 2 <=> ~HasContent(AdapterText(library.ocr1))
              /\ Len(AdapterRuns) = 2 => AdapterRuns[2] = "image"
              /\ (Len(AdapterRuns) = 2 /\ ~HasContent(AdapterText(library.ocr2)))
                    => extracted = NoTextDetected

\* both runs gave nothing and the sentinel names the file
C21_Witness ==
    /\ ImageProcessed
    /\ library.load_ok
    /\ library.enhance_ok
    /\ AdapterRuns = <<"enhanced", "image">>
    /\ ~HasContent(AdapterText(library.ocr1))
    /\ ~HasContent(AdapterText(library.ocr2))
    /\ upload.filename = <<"scan.bin">>
    /\ extracted = <<"[IMAGE] ", "scan.bin", " - No text detected">>

(* ---------------------------------------------------------------------- *)
(* require_firebase_auth                                                   *)
(* ---------------------------------------------------------------------- *)
AuthChecked == pc = "require_firebase_auth"

HeaderMissing == ~auth.auth_header.present \/ auth.auth_header.value = <<>>

\* the header has no blank, so nothing follows a first blank
NoSecondPart ==
    /\ ~HeaderMissing
    /\ \A i \in DOMAIN auth.auth_header.value : auth.auth_header.value[i] # " "

\* the pieces after the first blank, up to the next blank
SecondPart ==
    LET h == auth.auth_header.value
        first == CHOOSE k \in DOMAIN h : h[k] = " " /\ \A j \in 1..(k - 1) : h[j] # " "
        rest == SubSeq(h, first + 1, Len(h))
        stop == IF \E k \in DOMAIN rest : rest[k] = " "
                THEN CHOOSE k \in DOMAIN rest :
                        rest[k] = " " /\ \A j \in 1..(k - 1) : rest[j] # " "
                ELSE Len(rest) + 1
    IN SubSeq(rest, 1, stop - 1)

SdkAsked == "asked" \notin DOMAIN auth.sdk
TokenRejected == SdkAsked /\ auth.sdk.raised
SdkNotInitialized == ~firebase_auth_manager.app

Unauthorized ==
    /\ auth.response.code = 401
    /\ auth.response.body.status = JStr(<<"error">>)
    /\ ~auth.handler_invoked
    /\ auth.user = Absent

\* C22: a route under require_firebase_auth runs its handler only after
\* verify_token returned user information for the token taken from the
\* Authorization header; when the header is missing, has no second
\* space-separated part, the token is invalid or expired, or the Firebase SDK
\* failed to initialize, the response is 401 with status "error", the handler
\* is not invoked and request.user is not set.
C22_HandlerOnlyWhenVerified ==
    AuthChecked =>
        /\ auth.handler_invoked =>
              /\ firebase_auth_manager.app
              /\ SdkAsked /\ ~auth.sdk.raised
              /\ auth.token = JStr(SecondPart)
              /\ auth.user.t = "obj"
              /\ auth.user.o["uid"] = auth.sdk.value.uid
        /\ (HeaderMissing \/ NoSecondPart \/ TokenRejected \/ SdkNotInitialized)
              => Unauthorized

\* a well-formed header whose token the SDK reports as expired
C22_Witness ==
    /\ AuthChecked
    /\ firebase_auth_manager.app
    /\ auth.auth_header = Header(<<"Bearer", " ", "tok">>)
    /\ auth.token = JStr(<<"tok">>)
    /\ auth.sdk = Raises("ExpiredIdTokenError")
    /\ Unauthorized

====
